---- MODULE Spec2Model ----
(***************************************************************************)
(* A model of the project scaffolding script (scripts/setup.js and its     *)
(* earlier revision): the profile selector getScaffoldingOptionsFromArgs   *)
(* and the callback-driven scaffolder createSrcScaffolding /               *)
(* createAbsentFile / makeDirectory, run against a filesystem with         *)
(* Node's fs.open("wx"), fs.mkdir and fs.writeFile semantics.              *)
(*                                                                         *)
(* Strings the code takes apart are sequences: an argument token is a      *)
(* sequence of characters, a path is a sequence of components and          *)
(* separators ("src/app" is <<"src", "/", "app">>).  File contents are     *)
(* never taken apart and stay TLA+ strings.                                *)
(***************************************************************************)
EXTENDS Integers, Sequences, FiniteSets, TLC

\* ------------------------------------------------------------------------
\* Bounds of the model
\* ------------------------------------------------------------------------

\* longest argument list explored by the selector specification
MaxArgs == 2

\* ------------------------------------------------------------------------
\* Paths
\* ------------------------------------------------------------------------

\* path.sep (POSIX)
sep == "/"

SrcAppReadme == <<"src", sep, "app", sep, "README.md">>
TestAppKeep == <<"test", sep, "app", sep, ".keep">>
SrcServerReadme == <<"src", sep, "server", sep, "README.md">>
TestServerKeep == <<"test", sep, "server", sep, ".keep">>

\* ------------------------------------------------------------------------
\* Profile names and argument tokens, character by character
\* ------------------------------------------------------------------------

universal == <<"u", "n", "i", "v", "e", "r", "s", "a", "l">>
server == <<"s", "e", "r", "v", "e", "r">>
client == <<"c", "l", "i", "e", "n", "t">>
bogus == <<"b", "o", "g", "u", "s">>

DEFAULT_OPTIONS == universal

\* the two revisions of the script under src/
Variants == {"setup", "part_000"}

\* the options table of each revision
options(v) ==
    IF v = "setup"
    THEN (universal :> [files |-> <<SrcAppReadme, TestAppKeep, SrcServerReadme, TestServerKeep>>])
      @@ (server :> [files |-> <<SrcServerReadme, TestServerKeep>>])
      @@ (client :> [files |-> <<SrcAppReadme, TestAppKeep>>])
    ELSE (universal :> [files |-> <<SrcAppReadme, SrcServerReadme>>])
      @@ (server :> [files |-> <<SrcServerReadme>>])
      @@ (client :> [files |-> <<SrcAppReadme>>])

\* the content table (the same in both revisions)
content ==
    (SrcAppReadme :> "** Add clientside app content **")
    @@ (SrcServerReadme :> "** Add serverside app content **")

\* JavaScript's undefined, as the value of a property lookup that misses
Undefined == [undefined |-> TRUE]

\* options[key] for any key, undefined when the table has no such property
optionsLookup(v, key) ==
    IF key \in DOMAIN options(v) THEN options(v)[key] ELSE Undefined

\* index of the first "-" of a token, 0 when it has none
FirstDash(arg) ==
    IF \E i \in 1..Len(arg) : arg[i] = "-"
    THEN CHOOSE i \in 1..Len(arg) :
            arg[i] = "-" /\ \A j \in 1..(i - 1) : arg[j] # "-"
    ELSE 0

\* arg.replace("-", ""): removes the first "-" of the token, wherever it is
replaceDash(arg) ==
    LET k == FirstDash(arg)
    IN  IF k = 0 THEN arg
        ELSE SubSeq(arg, 1, k - 1) \o SubSeq(arg, k + 1, Len(arg))

\* the predicate handed to args.find
isOptionsKey(v, arg) == replaceDash(arg) \in DOMAIN options(v)

\* args.find(pred): <<the first token that satisfies pred>>, <<>> for undefined
find(v, as) ==
    IF \E i \in 1..Len(as) : isOptionsKey(v, as[i])
    THEN LET i == CHOOSE i \in 1..Len(as) :
                    isOptionsKey(v, as[i]) /\ \A j \in 1..(i - 1) : ~isOptionsKey(v, as[j])
         IN  <<as[i]>>
    ELSE <<>>

\* a variant of the selector without the "|| options[DEFAULT_OPTIONS]" fallback
getScaffoldingOptionsFromArgsNoDefault(v, as) ==
    LET found == find(v, as)
    IN  IF found = <<>> THEN Undefined ELSE optionsLookup(v, found[1])

\* options[args.find(...)] || options[DEFAULT_OPTIONS]: the table is indexed
\* with the token as found, not with the token after the replace
getScaffoldingOptionsFromArgs(v, as) ==
    LET found == find(v, as)
        looked == IF found = <<>> THEN Undefined ELSE optionsLookup(v, found[1])
    IN  IF looked # Undefined THEN looked ELSE options(v)[DEFAULT_OPTIONS]

\* ------------------------------------------------------------------------
\* Path helpers
\* ------------------------------------------------------------------------

\* index of the first separator of a path, 0 when it has none
FirstSep(s) ==
    IF \E i \in 1..Len(s) : s[i] = sep
    THEN CHOOSE i \in 1..Len(s) : s[i] = sep /\ \A j \in 1..(i - 1) : s[j] # sep
    ELSE 0

\* index of the last separator of a path, 0 when it has none
LastSep(s) ==
    IF \E i \in 1..Len(s) : s[i] = sep
    THEN CHOOSE i \in 1..Len(s) : s[i] = sep /\ \A j \in (i + 1)..Len(s) : s[j] # sep
    ELSE 0

\* directory.split(path.sep): the pieces between the separators
RECURSIVE split(_)
split(s) ==
    LET k == FirstSep(s)
    IN  IF k = 0 THEN <<s>>
        ELSE <<SubSeq(s, 1, k - 1)>> \o split(SubSeq(s, k + 1, Len(s)))

\* a variant of the map callback that forgets the separator after "previous"
RECURSIVE mapWithPreviousNoSep(_, _)
mapWithPreviousNoSep(previous, names) ==
    IF names = <<>> THEN <<>>
    ELSE LET result == previous \o Head(names)
         IN  <<result>> \o mapWithPreviousNoSep(result, Tail(names))

\* the map callback of getDirectorySequence, with its running "previous"
RECURSIVE mapWithPrevious(_, _)
mapWithPrevious(previous, names) ==
    IF names = <<>> THEN <<>>
    ELSE LET result == previous \o Head(names)
         IN  <<result>> \o mapWithPrevious(result \o <<sep>>, Tail(names))

getDirectorySequence(directory) == mapWithPrevious(<<>>, split(directory))

\* path.dirname of a relative path without a trailing separator
dirname(p) ==
    LET k == LastSep(p)
    IN  IF k = 0 THEN <<".">> ELSE SubSeq(p, 1, k - 1)

Range(s) == {s[i] : i \in 1..Len(s)}

\* ------------------------------------------------------------------------
\* The filesystem the script runs against
\* ------------------------------------------------------------------------

\* every file any profile of either revision names
AllFiles == UNION {Range(options(v)[k].files) : v \in Variants, k \in DOMAIN options("setup")}

\* every directory on the way to one of them
AllDirs == UNION {Range(getDirectorySequence(dirname(f))) : f \in AllFiles}

\* what a file that was there before the script ran holds
OldContent == "old"

\* what a file made by somebody else while the script runs holds
ExternalContent == "external"

VARIABLES
    variant,    \* which revision of the script runs
    coerce,     \* TRUE: fs.writeFile writes "undefined" for undefined data (Node < 14);
                \* FALSE: it throws a TypeError (Node >= 14)
    args,       \* process.argv
    dirs,       \* the directories that exist
    files,      \* the files that exist, with their content
    st,         \* per invocation and file: where its callback chain stands
    started,    \* per invocation: init() has run
    aborted,    \* per invocation: an exception reached the top level, the process is dead
    opts,       \* per invocation: the options object chosen by init()
    pre,        \* per invocation: the filesystem when init() ran (history)
    planned,    \* the invocations that will be launched
    faults,     \* how many calls got an error other than EEXIST / ENOENT (history)
    externals,  \* the files somebody else created while the script ran (history)
    selected,   \* the selector's result in the selector specification
    dirArg,     \* the argument of getDirectorySequence in its own specification
    dirResult   \* its result there

vars == <<variant, coerce, args, dirs, files, st, started, aborted, opts, pre,
          planned, faults, externals, selected, dirArg, dirResult>>

Invocations == {1, 2}

\* most calls that fail with a code other than EEXIST / ENOENT
MaxFaults == 1

\* most files somebody else creates while the script runs
MaxExternal == 1

\* largest profile explored together with failing calls and the other actor
MaxDisturbedTargets == 2

DirExists(d) == d = <<".">> \/ d \in dirs

FileExists(f) == f \in DOMAIN files

\* The filesystem calls end with "OK" or an error code; EACCES stands for
\* every code other than EEXIST and ENOENT.

\* the natural result of fs.open(file, "wx")
openResult(f) ==
    IF ~DirExists(dirname(f)) THEN "ENOENT"
    ELSE IF FileExists(f) THEN "EEXIST"
    ELSE "OK"

\* the natural result of fs.mkdir(directory)
mkdirResult(d) ==
    IF ~DirExists(dirname(d)) THEN "ENOENT"
    ELSE IF d \in dirs THEN "EEXIST"
    ELSE "OK"

\* the natural result of fs.writeFile(file, data): flag "w" creates or truncates
writeResult(f) ==
    IF ~DirExists(dirname(f)) THEN "ENOENT" ELSE "OK"

\* Failing calls and the other actor are explored on the runs of a single
\* invocation whose profile has at most MaxDisturbedTargets files; the
\* four-file profile and the runs of two invocations are explored on every
\* completion order without them.
Disturbed ==
    /\ planned = {1}
    /\ Len(getScaffoldingOptionsFromArgs(variant, args).files) <= MaxDisturbedTargets

\* the results a call can get: the natural one, or another error while the
\* budget of such errors lasts
Results(natural) ==
    {natural} \cup (IF Disturbed /\ faults < MaxFaults THEN {"EACCES"} ELSE {})

\* what fs.writeFile(file, content[file]) writes
dataFor(f) == IF f \in DOMAIN content THEN content[f] ELSE "undefined"

\* fs.writeFile(file, undefined) throws synchronously on a runtime that does not coerce
writeThrows(f) == f \notin DOMAIN content /\ ~coerce

\* no result yet for any fs.mkdir
NoResults == [d \in {} |-> "OK"]

\* pc: the call that is outstanding; pend: the directories whose fs.mkdir is
\* outstanding; made: the result each fs.mkdir callback got; the counters
\* count the calls issued, the callbacks invoked and the console lines
Idle == [pc |-> "idle", route |-> "none", pend |-> {}, outcome |-> "none",
         thrown |-> "none", skipLines |-> 0, createdLines |-> 0, errorLines |-> 0,
         mkdirErrors |-> 0, doneCalls |-> 0, made |-> NoResults, allDoneCalls |-> 0,
         opens |-> 0, writes |-> 0, mkdirCalls |-> 0]

\* ------------------------------------------------------------------------
\* The scaffolder: one action per asynchronous completion
\* ------------------------------------------------------------------------

\* the call fs.writeFile(file, content[file], ...) as issued from a callback:
\* the call is outstanding, or it threw on undefined data
issueWrite(rec, f, route) ==
    IF writeThrows(f)
    THEN [rec EXCEPT !.pc = "done", !.route = route, !.thrown = "TypeError"]
    ELSE [rec EXCEPT !.pc = "write", !.route = route, !.writes = @ + 1]

\* makeDirectory: async.each issues one fs.mkdir per element of the sequence, all at once
makeDirectory(rec, directory) ==
    [rec EXCEPT !.pc = "mkdir", !.route = "recovery",
                !.pend = Range(getDirectorySequence(directory)),
                !.mkdirCalls = @ + Len(getDirectorySequence(directory))]

\* the console line of the EEXIST branch: only the earlier revision prints one
skipLine == IF variant = "part_000" THEN 1 ELSE 0

\* a variant that tries the exclusive open again on ENOENT once the
\* directories are asked for, instead of leaving the write to allDone
handleFileOpenErrorsRetry(rec, code, f) ==
    IF code = "EEXIST"
    THEN [rec EXCEPT !.pc = "done", !.outcome = "skipped", !.skipLines = @ + skipLine]
    ELSE IF code = "ENOENT"
    THEN [rec EXCEPT !.pc = "open", !.opens = @ + 1]
    ELSE [rec EXCEPT !.pc = "done", !.thrown = code]

\* a variant that records every other open error for the path instead of throwing it
handleFileOpenErrorsRecorded(rec, code, f) ==
    IF code = "EEXIST"
    THEN [rec EXCEPT !.pc = "done", !.outcome = "skipped", !.skipLines = @ + skipLine]
    ELSE IF code = "ENOENT"
    THEN makeDirectory(rec, dirname(f))
    ELSE [rec EXCEPT !.pc = "done", !.outcome = "failed", !.errorLines = @ + 1]

handleFileOpenErrors(rec, code, f) ==
    IF code = "EEXIST"
    THEN [rec EXCEPT !.pc = "done", !.outcome = "skipped", !.skipLines = @ + skipLine]
    ELSE IF code = "ENOENT"
    THEN makeDirectory(rec, dirname(f))
    ELSE [rec EXCEPT !.pc = "done", !.thrown = code]

\* the files async.each hands to createAbsentFile
targetFiles(o) == Range(o.files)

\* a variant that iterates over the files of the default profile, whatever was selected
createSrcScaffoldingDefault(o) ==
    [f \in AllFiles |->
        IF f \in targetFiles(options(variant)[DEFAULT_OPTIONS])
        THEN [Idle EXCEPT !.pc = "open", !.opens = 1] ELSE Idle]

\* createSrcScaffolding: one fs.open(file, "wx") outstanding per file of the profile
createSrcScaffolding(o) ==
    [f \in AllFiles |-> IF f \in targetFiles(o) THEN [Idle EXCEPT !.pc = "open", !.opens = 1] ELSE Idle]

\* an invocation has nothing left to run
Settled(i) ==
    started[i] /\ (aborted[i] \/ \A f \in AllFiles : st[i][f].pc \in {"idle", "done"})

\* init(): select the profile from the arguments and start the scaffolder
init(i) ==
    /\ i \in planned
    /\ ~started[i]
    /\ \A j \in Invocations : j < i => started[j]
    /\ started' = [started EXCEPT ![i] = TRUE]
    /\ opts' = [opts EXCEPT ![i] = getScaffoldingOptionsFromArgs(variant, args)]
    /\ st' = [st EXCEPT ![i] = createSrcScaffolding(opts'[i])]
    /\ pre' = [pre EXCEPT ![i] = [files |-> files, dirs |-> dirs,
                                  quiet |-> \A j \in Invocations \ {i} : started[j] => Settled(j)]]
    /\ UNCHANGED <<variant, coerce, args, dirs, files, aborted, planned, faults,
                   externals, selected, dirArg, dirResult>>

\* fs.open(file, "wx") completes and its callback runs
createAbsentFile(i, f) ==
    /\ started[i]
    /\ ~aborted[i]
    /\ st[i][f].pc = "open"
    /\ \E r \in Results(openResult(f)) :
        LET rec == IF r = "OK"
                   THEN issueWrite(st[i][f], f, "direct")
                   ELSE handleFileOpenErrors(st[i][f], r, f)
        IN  /\ files' = IF r = "OK" THEN (f :> "") @@ files ELSE files
            /\ faults' = IF r = "EACCES" THEN faults + 1 ELSE faults
            /\ st' = [st EXCEPT ![i][f] = rec]
            /\ aborted' = [aborted EXCEPT ![i] = rec.thrown # "none"]
    /\ UNCHANGED <<variant, coerce, args, dirs, started, opts, pre, planned,
                   externals, selected, dirArg, dirResult>>

\* a variant whose completion callback runs as soon as one done() was called
mkdirCallbackEager(rec, f, d, r) ==
    LET counted == [rec EXCEPT
                        !.pend = @ \ {d},
                        !.made = (d :> r) @@ @,
                        !.mkdirErrors = @ + (IF r \in {"OK", "EEXIST"} THEN 0 ELSE 1)]
    IN  issueWrite([counted EXCEPT !.allDoneCalls = @ + 1], f, "recovery")

\* a variant that hands the error to done(err): async.each then runs the
\* completion callback at the first error, before the other calls are back
mkdirCallbackFailFast(rec, f, d, r) ==
    LET counted == [rec EXCEPT
                        !.pend = @ \ {d},
                        !.made = (d :> r) @@ @,
                        !.mkdirErrors = @ + (IF r \in {"OK", "EEXIST"} THEN 0 ELSE 1)]
    IN  IF counted.pend = {} \/ r \notin {"OK", "EEXIST"}
        THEN issueWrite([counted EXCEPT !.allDoneCalls = @ + 1], f, "recovery")
        ELSE counted

\* a variant without the test err.code !== "EEXIST": every error is logged
mkdirCallbackLogsExists(rec, f, d, r) ==
    LET counted == [rec EXCEPT
                        !.pend = @ \ {d},
                        !.made = (d :> r) @@ @,
                        !.mkdirErrors = @ + (IF r = "OK" THEN 0 ELSE 1)]
    IN  IF counted.pend = {}
        THEN issueWrite([counted EXCEPT !.allDoneCalls = @ + 1], f, "recovery")
        ELSE counted

\* the callback of fs.mkdir: handleDirectoryMade logs an error other than
\* EEXIST and calls done() without an error; async.each calls handleComplete
\* once every done() was called, and handleComplete calls allDone, which
\* issues the write
mkdirCallback(rec, f, d, r) ==
    LET counted == [rec EXCEPT
                        !.pend = @ \ {d},
                        !.made = (d :> r) @@ @,
                        !.mkdirErrors = @ + (IF r \in {"OK", "EEXIST"} THEN 0 ELSE 1)]
    IN  IF counted.pend = {}
        THEN issueWrite([counted EXCEPT !.allDoneCalls = @ + 1], f, "recovery")
        ELSE counted

\* fs.mkdir(directory) completes and its callback runs
handleDirectoryMade(i, f, d) ==
    /\ started[i]
    /\ ~aborted[i]
    /\ st[i][f].pc = "mkdir"
    /\ d \in st[i][f].pend
    /\ \E r \in Results(mkdirResult(d)) :
        LET rec == mkdirCallback(st[i][f], f, d, r)
        IN  /\ dirs' = IF r = "OK" THEN dirs \cup {d} ELSE dirs
            /\ faults' = IF r = "EACCES" THEN faults + 1 ELSE faults
            /\ st' = [st EXCEPT ![i][f] = rec]
            /\ aborted' = [aborted EXCEPT ![i] = rec.thrown # "none"]
    /\ UNCHANGED <<variant, coerce, args, files, started, opts, pre, planned,
                   externals, selected, dirArg, dirResult>>

\* a variant of the write callback that returns after logging the error,
\* without calling done()
handleWriteFileNoDoneOnError(i, f) ==
    /\ started[i]
    /\ ~aborted[i]
    /\ st[i][f].pc = "write"
    /\ \E r \in Results(writeResult(f)) :
        /\ files' = IF r = "OK" THEN (f :> dataFor(f)) @@ files ELSE files
        /\ faults' = IF r = "EACCES" THEN faults + 1 ELSE faults
        /\ st' = [st EXCEPT ![i][f] =
                    IF r = "OK"
                    THEN [@ EXCEPT !.pc = "done", !.outcome = "created",
                                   !.createdLines = @ + 1, !.doneCalls = @ + 1]
                    ELSE [@ EXCEPT !.pc = "done", !.outcome = "failed",
                                   !.errorLines = @ + 1]]
    /\ UNCHANGED <<variant, coerce, args, dirs, started, aborted, opts, pre, planned,
                   externals, selected, dirArg, dirResult>>

\* fs.writeFile(file, content[file]) completes and its callback runs
handleWriteFile(i, f) ==
    /\ started[i]
    /\ ~aborted[i]
    /\ st[i][f].pc = "write"
    /\ \E r \in Results(writeResult(f)) :
        /\ files' = IF r = "OK" THEN (f :> dataFor(f)) @@ files ELSE files
        /\ faults' = IF r = "EACCES" THEN faults + 1 ELSE faults
        /\ st' = [st EXCEPT ![i][f] =
                    IF r = "OK"
                    THEN [@ EXCEPT !.pc = "done", !.outcome = "created",
                                   !.createdLines = @ + 1, !.doneCalls = @ + 1]
                    ELSE [@ EXCEPT !.pc = "done", !.outcome = "failed",
                                   !.errorLines = @ + 1, !.doneCalls = @ + 1]]
    /\ UNCHANGED <<variant, coerce, args, dirs, started, aborted, opts, pre, planned,
                   externals, selected, dirArg, dirResult>>

\* a call that was outstanding when the process died may still take effect;
\* its callback never runs
orphan(i, f) ==
    /\ started[i]
    /\ aborted[i]
    /\ st[i][f].pc \in {"open", "mkdir", "write"}
    /\ IF st[i][f].pc = "open"
       THEN /\ files' = IF openResult(f) = "OK" THEN (f :> "") @@ files ELSE files
            /\ dirs' = dirs
            /\ st' = [st EXCEPT ![i][f].pc = "done"]
       ELSE IF st[i][f].pc = "write"
       THEN /\ files' = IF writeResult(f) = "OK" THEN (f :> dataFor(f)) @@ files ELSE files
            /\ dirs' = dirs
            /\ st' = [st EXCEPT ![i][f].pc = "done"]
       ELSE \E d \in st[i][f].pend :
            /\ dirs' = IF mkdirResult(d) = "OK" THEN dirs \cup {d} ELSE dirs
            /\ files' = files
            /\ st' = [st EXCEPT ![i][f] =
                        [@ EXCEPT !.pend = @ \ {d},
                                  !.pc = IF st[i][f].pend = {d} THEN "done" ELSE "mkdir"]]
    /\ UNCHANGED <<variant, coerce, args, started, aborted, opts, pre, planned,
                   faults, externals, selected, dirArg, dirResult>>

\* somebody else creates a file while the script runs
externalCreate(f) ==
    /\ \E i \in Invocations : started[i]
    /\ Disturbed
    /\ Cardinality(externals) < MaxExternal
    /\ ~FileExists(f)
    /\ DirExists(dirname(f))
    /\ files' = (f :> ExternalContent) @@ files
    /\ externals' = externals \cup {f}
    /\ UNCHANGED <<variant, coerce, args, dirs, st, started, aborted, opts, pre,
                   planned, faults, selected, dirArg, dirResult>>

\* the selector alone, applied to the arguments
select ==
    /\ selected = <<>>
    /\ planned = {}
    /\ selected' = <<getScaffoldingOptionsFromArgs(variant, args)>>
    /\ UNCHANGED <<variant, coerce, args, dirs, files, st, started, aborted, opts, pre,
                   planned, faults, externals, dirArg, dirResult>>

\* ------------------------------------------------------------------------
\* Initial states
\* ------------------------------------------------------------------------

\* the filesystems the script can be started on: a directory has its parent,
\* a file has its directory
InitialFilesystems ==
    {fsys \in [dirs : SUBSET AllDirs, files : SUBSET AllFiles] :
        /\ \A d \in fsys.dirs : dirname(d) = <<".">> \/ dirname(d) \in fsys.dirs
        /\ \A f \in fsys.files : dirname(f) \in fsys.dirs}

EmptyFilesystem == [dirs |-> {}, files |-> {}]

\* the tokens the selector is tried on
Tokens ==
    {<<>>, <<"-">>, server, <<"-">> \o server, <<"-", "-">> \o server,
     <<"s", "e", "r", "-", "v", "e", "r">>, server \o <<"-">>,
     client, <<"-">> \o client, universal, <<"-">> \o universal,
     bogus, <<"-">> \o bogus}

ArgLists == UNION {[1..n -> Tokens] : n \in 0..MaxArgs}

\* the argument lists the scaffolder is run with: one per profile
ProfileArgs == {<<>>, <<server>>, <<client>>}

InitWith(argSet, fsSet, plan) ==
    /\ variant \in Variants
    /\ coerce \in BOOLEAN
    /\ args \in argSet
    /\ \E fsys \in fsSet :
        /\ dirs = fsys.dirs
        /\ files = [f \in fsys.files |-> OldContent]
    /\ st = [i \in Invocations |-> [f \in AllFiles |-> Idle]]
    /\ started = [i \in Invocations |-> FALSE]
    /\ aborted = [i \in Invocations |-> FALSE]
    /\ opts = [i \in Invocations |-> Undefined]
    /\ pre = [i \in Invocations |-> Undefined]
    /\ planned = plan
    /\ faults = 0
    /\ externals = {}
    /\ selected = <<>>
    /\ dirResult = <<>>

\* one invocation, on any filesystem, with failing calls and somebody else around
Init == InitWith(ProfileArgs, InitialFilesystems, {1}) /\ dirArg = <<>>

Step ==
    \E i \in Invocations, f \in AllFiles :
        \/ createAbsentFile(i, f)
        \/ \E d \in AllDirs : handleDirectoryMade(i, f, d)
        \/ handleWriteFile(i, f)
        \/ orphan(i, f)

Next ==
    \/ \E i \in Invocations : init(i)
    \/ Step
    \/ \E f \in AllFiles : externalCreate(f)

Spec == Init /\ [][Next]_vars

\* getDirectorySequence alone, applied to its argument
directorySequence ==
    /\ dirArg # <<>>
    /\ dirResult = <<>>
    /\ dirResult' = getDirectorySequence(dirArg)
    /\ UNCHANGED <<variant, coerce, args, dirs, files, st, started, aborted, opts, pre,
                   planned, faults, externals, selected, dirArg>>

\* the names a directory path is built from, and most components of one
Names == {"a", "b", "c"}

MaxDepth == 3

ComponentLists == UNION {[1..k -> Names] : k \in 1..MaxDepth}

\* the components joined by the separator
RECURSIVE Join(_)
Join(comps) ==
    IF Len(comps) = 1 THEN <<comps[1]>>
    ELSE <<comps[1], sep>> \o Join(Tail(comps))

\* getDirectorySequence on every path of up to MaxDepth components
InitDirs ==
    /\ InitWith({<<>>}, {EmptyFilesystem}, {})
    /\ dirArg \in {Join(comps) : comps \in ComponentLists}

NextDirs == directorySequence

SpecDirs == InitDirs /\ [][NextDirs]_vars

\* the event loop runs the callback of every call that has completed, and
\* every filesystem call completes
\* (checked on the client profile, with failing calls and the other actor, on
\* the filesystems that hold nothing of the server side)
ClientFilesystems ==
    {fsys \in InitialFilesystems :
        /\ fsys.dirs \subseteq UNION {Range(getDirectorySequence(dirname(f))) :
                                        f \in Range(options("setup")[client].files)}
        /\ fsys.files \subseteq Range(options("setup")[client].files)}

InitFair == InitWith({<<client>>}, ClientFilesystems, {1}) /\ dirArg = <<>>

SpecFair == InitFair /\ [][Next]_vars /\ WF_vars(Step)

\* the selector on every argument list
InitSelect == InitWith(ArgLists, {EmptyFilesystem}, {}) /\ dirArg = <<>>

NextSelect == select

SpecSelect == InitSelect /\ [][NextSelect]_vars

\* two invocations of the same command line, one after the other or at the
\* same time, on the client profile (two files, or one in the earlier revision)
InitPair == InitWith({<<client>>}, InitialFilesystems, {1, 2}) /\ dirArg = <<>>

NextPair ==
    \/ \E i \in Invocations : init(i)
    \/ Step

SpecPair == InitPair /\ [][NextPair]_vars

\* ------------------------------------------------------------------------
\* Vocabulary of the properties
\* ------------------------------------------------------------------------

ProfileNames == {universal, server, client}

\* the profiles of the running revision
KnownProfiles == {options(variant)[k] : k \in ProfileNames}

\* a token names a profile: as it stands, or after its one leading dash
NamesProfile(tok) ==
    \/ tok \in ProfileNames
    \/ Len(tok) > 0 /\ Head(tok) = "-" /\ Tail(tok) \in ProfileNames

NamedProfile(tok) == IF tok \in ProfileNames THEN tok ELSE Tail(tok)

\* the target files of an invocation, none before it starts
Targets(i) == IF started[i] THEN targetFiles(opts[i]) ELSE {}

\* the directories on the way to the target files of an invocation
TargetDirs(i) == UNION {Range(getDirectorySequence(dirname(f))) : f \in Targets(i)}

\* every callback chain of the invocation ran to its end
Completed(i) ==
    started[i] /\ ~aborted[i] /\ \A f \in AllFiles : st[i][f].pc \in {"idle", "done"}

\* what the callbacks of a path have reported so far
Reported(rec) ==
    <<rec.outcome, rec.thrown, rec.route, rec.skipLines, rec.createdLines,
      rec.errorLines, rec.mkdirErrors, rec.doneCalls>>

\* ------------------------------------------------------------------------
\* The claims
\* ------------------------------------------------------------------------

\* C1: once every callback of an invocation has run, and no filesystem call
\* returned an error other than already-exists and missing-ancestor, every
\* target path of the profile exists as a file.
C1_AllTargetsExist ==
    \A i \in Invocations :
        (Completed(i) /\ faults = 0) => \A f \in Targets(i) : FileExists(f)

\* C2: no step changes the content of a file that exists, except the write of
\* the invocation whose own exclusive open has just created it.
C2_NeverOverwritten ==
    [][\A f \in AllFiles :
          (FileExists(f) /\ files'[f] # files[f]) =>
              \E i \in Invocations :
                  /\ st[i][f].pc = "write"
                  /\ st[i][f].route = "direct"
                  /\ st'[i][f].pc = "done"]_vars

\* C3: the selector returns the profile named by the first token that, with
\* its one leading dash stripped, equals a known profile name.
C3_FirstNamedProfileSelected ==
    (selected # <<>> /\ \E n \in 1..Len(args) : NamesProfile(args[n])) =>
        LET n == CHOOSE n \in 1..Len(args) :
                    NamesProfile(args[n]) /\ \A m \in 1..(n - 1) : ~NamesProfile(args[m])
        IN  selected[1] = options(variant)[NamedProfile(args[n])]

\* C4: the selector returns one of the three known profiles, never undefined,
\* and the universal profile when no token names a profile.
C4_AlwaysAKnownProfile ==
    selected # <<>> =>
        /\ selected[1] \in KnownProfiles
        /\ (\A n \in 1..Len(args) : ~NamesProfile(args[n])) =>
                selected[1] = options(variant)[universal]

\* C4 witness: the single token "-bogus" has been resolved to the universal profile.
C4_Witness ==
    /\ args = <<(<<"-">> \o bogus)>>
    /\ selected = <<options(variant)[universal]>>

\* C5: a target that did not exist before the invocation and got the outcome
\* created holds the content-table entry of its path, and nothing when the
\* table has no entry.
C5_CreatedContentFromTable ==
    \A i \in Invocations : \A f \in Targets(i) :
        (st[i][f].outcome = "created" /\ f \notin DOMAIN pre[i].files) =>
            files[f] = (IF f \in DOMAIN content THEN content[f] ELSE "")

\* C6: when a second run starts after a first run on an empty filesystem has
\* completed, and completes too, it leaves the filesystem as the first run
\* left it and every target has the outcome skipped, with no directory creation.
C6_SecondRunOnlySkips ==
    ( /\ Completed(1) /\ Completed(2)
      /\ pre[1].dirs = {} /\ pre[2].quiet ) =>
        /\ dirs = pre[2].dirs
        /\ files = pre[2].files
        /\ \A f \in Targets(2) :
            st[2][f].outcome = "skipped" /\ st[2][f].route = "none"

\* C7: an exclusive open that fails with an error other than already-exists
\* and missing-ancestor is thrown: the invocation is aborted, the path gets no
\* outcome and no console line, and once an invocation is aborted no callback
\* of any of its paths runs.
C7_OtherOpenErrorAborts ==
    [][\A i \in Invocations :
          /\ \A f \in AllFiles :
                (st[i][f].pc = "open" /\ st'[i][f] # st[i][f] /\ faults' # faults) =>
                    /\ aborted'[i]
                    /\ st'[i][f].thrown = "EACCES"
                    /\ st'[i][f].outcome = "none"
                    /\ st'[i][f].skipLines + st'[i][f].createdLines
                         + st'[i][f].errorLines + st'[i][f].doneCalls = 0
          /\ aborted[i] =>
                /\ aborted'[i]
                /\ \A f \in AllFiles : Reported(st'[i][f]) = Reported(st[i][f])]_vars

\* C7 witness: an open has thrown, the invocation is aborted, and the chain of
\* another target was still outstanding.
C7_Witness ==
    \E i \in Invocations : \E f, g \in Targets(i) :
        /\ f # g
        /\ aborted[i]
        /\ st[i][f].thrown = "EACCES"
        /\ st[i][f].outcome = "none"
        /\ st[i][g].pc \in {"open", "mkdir", "write"}

\* C8: a target whose exclusive open failed with already-exists is reported
\* skipped with exactly one console line, and nothing else is done on it: no
\* directory creation, no write.
C8_SkipReportedOnce ==
    \A i \in Invocations : \A f \in AllFiles :
        st[i][f].outcome = "skipped" =>
            /\ st[i][f].skipLines = 1
            /\ st[i][f].pc = "done"
            /\ st[i][f].route = "none"
            /\ st[i][f].createdLines + st[i][f].errorLines = 0

\* C9: of two invocations racing on the same target at most one writes it and
\* reports created; the other one reports skipped.
C9_AtMostOneCreates ==
    \A f \in AllFiles :
        LET creators == {i \in Invocations : st[i][f].outcome = "created"}
        IN  /\ Cardinality(creators) <= 1
            /\ \A i \in Invocations \ creators :
                  (creators # {} /\ st[i][f].outcome # "none") =>
                      st[i][f].outcome = "skipped"

\* C10: a step of the scaffolder deletes nothing, adds only target files of
\* the profile and their ancestor directories, and leaves every file that is
\* not a target as it was.
C10_Frame ==
    [][externals' = externals =>
          LET T == UNION {Targets(i) : i \in Invocations}
              D == UNION {TargetDirs(i) : i \in Invocations}
          IN  /\ dirs \subseteq dirs'
              /\ DOMAIN files \subseteq DOMAIN files'
              /\ dirs' \ dirs \subseteq D
              /\ (DOMAIN files' \ DOMAIN files) \subseteq T
              /\ \A f \in DOMAIN files \ T : files'[f] = files[f]]_vars

\* C10 witness: the invocation has made a directory and created a target
\* while a file that is no target of the profile is there, untouched.
C10_Witness ==
    /\ \E f \in AllFiles \ Targets(1) : FileExists(f) /\ files[f] = OldContent
    /\ \E g \in Targets(1) : st[1][g].outcome = "created"
    /\ started[1] /\ dirs # pre[1].dirs

\* the prefixes makeDirectory makes for a target, and those above a given one
Prefixes(f) == Range(getDirectorySequence(dirname(f)))

Shallower(f, d) == {e \in Prefixes(f) : Len(e) < Len(d)}

\* C11: within one makeDirectory call the fs.mkdir of a prefix takes effect
\* only once the fs.mkdir of every shallower prefix has completed, and it
\* never fails with missing-parent.
C11_ShallowestFirst ==
    [][\A i \in Invocations : \A f \in AllFiles : \A d \in AllDirs :
          ( /\ st[i][f].pc = "mkdir"
            /\ d \in st[i][f].pend
            /\ d \notin st'[i][f].pend ) =>
                /\ Shallower(f, d) \cap st[i][f].pend = {}
                /\ d \in DOMAIN st'[i][f].made => st'[i][f].made[d] # "ENOENT"]_vars

\* C12: on the recovery path the write is issued only once the fs.mkdir of
\* every ancestor prefix is back: no write is outstanding or done while a
\* mkdir of the path is outstanding, and the write is the only call besides
\* the one exclusive open.
C12_WriteAfterAllMkdirs ==
    \A i \in Invocations : \A f \in AllFiles :
        ( /\ st[i][f].route = "recovery"
          /\ \/ st[i][f].writes > 0
             \/ st[i][f].pc = "write"
             \/ st[i][f].outcome \in {"created", "failed"} ) =>
            /\ st[i][f].pend = {}
            /\ DOMAIN st[i][f].made = Prefixes(f)
            /\ st[i][f].opens = 1
            /\ st[i][f].writes = 1

\* C12 witness: the write of a recovery path is outstanding after both of its
\* mkdirs came back, one of them with an error.
C12_Witness ==
    \E i \in Invocations : \E f \in AllFiles :
        /\ st[i][f].route = "recovery"
        /\ st[i][f].pc = "write"
        /\ Cardinality(DOMAIN st[i][f].made) = 2
        /\ st[i][f].mkdirErrors > 0

\* the fs.mkdir callbacks of a path that got an error other than already-exists
LoggedResults(rec) == {d \in DOMAIN rec.made : rec.made[d] \notin {"OK", "EEXIST"}}

\* C13: a makeDirectory call attempts the fs.mkdir of every prefix whatever
\* the others return, logs each error other than already-exists, and calls
\* allDone exactly once, when every prefix has been attempted, not before.
C13_AllAttemptedThenAllDoneOnce ==
    \A i \in Invocations : \A f \in AllFiles :
        st[i][f].route = "recovery" =>
            /\ st[i][f].mkdirCalls = Cardinality(Prefixes(f))
            /\ ~aborted[i] => st[i][f].pend \cup DOMAIN st[i][f].made = Prefixes(f)
            /\ st[i][f].allDoneCalls = (IF DOMAIN st[i][f].made = Prefixes(f) THEN 1 ELSE 0)
            /\ st[i][f].mkdirErrors = Cardinality(LoggedResults(st[i][f]))

\* C13 witness: a makeDirectory call went through both prefixes although one
\* fs.mkdir failed with another error, and allDone was called once.
C13_Witness ==
    \E i \in Invocations : \E f \in AllFiles :
        /\ st[i][f].route = "recovery"
        /\ DOMAIN st[i][f].made = Prefixes(f)
        /\ \E d \in DOMAIN st[i][f].made : st[i][f].made[d] = "EACCES"
        /\ \E d \in DOMAIN st[i][f].made : st[i][f].made[d] = "OK"
        /\ st[i][f].allDoneCalls = 1

\* C14: an fs.mkdir of makeDirectory that finds its directory already there
\* changes nothing on the filesystem, writes no error line and throws nothing
\* of its own (only the write issued by the completion callback can throw);
\* when it is the last one back, the completion callback is invoked.
C14_ExistingDirectoryIsSuccess ==
    [][\A i \in Invocations : \A f \in AllFiles : \A d \in AllDirs :
          ( /\ st[i][f].pc = "mkdir"
            /\ ~aborted[i]
            /\ d \in st[i][f].pend
            /\ d \in DOMAIN st'[i][f].made
            /\ st'[i][f].made[d] = "EEXIST" ) =>
                /\ dirs' = dirs
                /\ files' = files
                /\ st'[i][f].mkdirErrors = st[i][f].mkdirErrors
                /\ st'[i][f].thrown \in {"none", "TypeError"}
                /\ st[i][f].pend = {d} => st'[i][f].allDoneCalls = 1]_vars

\* C14 witness: a whole makeDirectory call found every prefix already there,
\* logged nothing and called allDone.
C14_Witness ==
    \E i \in Invocations : \E f \in AllFiles :
        /\ st[i][f].route = "recovery"
        /\ DOMAIN st[i][f].made = Prefixes(f)
        /\ \A d \in Prefixes(f) : st[i][f].made[d] = "EEXIST"
        /\ st[i][f].mkdirErrors = 0
        /\ st[i][f].allDoneCalls = 1
        /\ ~aborted[i]

\* C15: a failure of the file write is logged and gives the path the outcome
\* failed; it is never thrown, on the direct path or on the recovery path,
\* and it leaves the chains of the other targets of the invocation as they are.
C15_WriteFailureLoggedNotFatal ==
    [][\A i \in Invocations : \A f \in AllFiles :
          /\ ( /\ st[i][f].pc = "write"
               /\ ~aborted[i]
               /\ st'[i][f].pc = "done"
               /\ (writeResult(f) # "OK" \/ faults' # faults) ) =>
                    /\ st'[i][f].outcome = "failed"
                    /\ st'[i][f].errorLines = st[i][f].errorLines + 1
                    /\ st'[i][f].thrown = "none"
                    /\ aborted' = aborted
                    /\ \A g \in AllFiles \ {f} : st'[i][g] = st[i][g]
          /\ st'[i][f].thrown # "TypeError"]_vars

\* C16: two targets of one invocation that share a missing ancestor and both
\* take the recovery path are both created, and neither logs a mkdir error.
C16_SharedAncestorBothCreated ==
    \A i \in Invocations : \A f, g \in Targets(i) :
        ( /\ f # g
          /\ Completed(i)
          /\ faults = 0
          /\ externals = {}
          /\ st[i][f].route = "recovery"
          /\ st[i][g].route = "recovery"
          /\ Prefixes(f) \cap Prefixes(g) # {}
          /\ Prefixes(f) \cap Prefixes(g) \cap pre[i].dirs = {} ) =>
            /\ st[i][f].outcome = "created"
            /\ st[i][g].outcome = "created"
            /\ st[i][f].mkdirErrors + st[i][g].mkdirErrors = 0

\* C17: an invocation that is not aborted resolves every target to one
\* outcome, which then stays, and nothing is attempted again: per target at
\* most one exclusive open, one fs.mkdir per ancestor prefix and one write.
C17_ResolvesOnceNoRetry ==
    /\ [](\A i \in Invocations : \A f \in AllFiles :
            /\ st[i][f].opens <= 1
            /\ st[i][f].writes <= 1
            /\ st[i][f].mkdirCalls <= Cardinality(Prefixes(f))
            /\ st[i][f].outcome \in {"none", "created", "skipped", "failed"})
    /\ [][\A i \in Invocations : \A f \in AllFiles :
            st[i][f].outcome # "none" => st'[i][f].outcome = st[i][f].outcome]_vars
    /\ \A i \in Invocations :
            started[i] ~> (aborted[i] \/ \A f \in Targets(i) : st[i][f].outcome # "none")

\* C17 witness: an invocation ran to its end without a fatal error, with a
\* created, a skipped and a failed target behind it or a recovery among them.
C17_Witness ==
    \E i \in Invocations :
        /\ Completed(i)
        /\ \E f \in Targets(i) : st[i][f].outcome = "failed" /\ st[i][f].route = "recovery"
        /\ \E f \in Targets(i) : st[i][f].outcome \in {"created", "skipped"}

\* one path is a proper prefix of another
ProperPrefix(p, q) == Len(p) < Len(q) /\ SubSeq(q, 1, Len(p)) = p

\* C18: for a path of k components getDirectorySequence returns k paths, the
\* n-th being the first n components joined by the separator; each is a
\* proper prefix of the next and the last one is the path itself.
C18_PrefixSequence ==
    dirResult # <<>> =>
        \A comps \in ComponentLists :
            Join(comps) = dirArg =>
                /\ Len(dirResult) = Len(comps)
                /\ \A n \in 1..Len(comps) : dirResult[n] = Join(SubSeq(comps, 1, n))
                /\ \A n \in 1..(Len(comps) - 1) : ProperPrefix(dirResult[n], dirResult[n + 1])
                /\ dirResult[Len(dirResult)] = dirArg

\* C18 witness: "a/b/c" has been taken apart into "a", "a/b", "a/b/c".
C18_Witness ==
    /\ dirArg = <<"a", sep, "b", sep, "c">>
    /\ dirResult = << <<"a">>, <<"a", sep, "b">>, <<"a", sep, "b", sep, "c">> >>

\* C19: done is invoked at most once for a target, and exactly once for a
\* target whose outcome is created or failed.
C19_DoneAtMostOnce ==
    \A i \in Invocations : \A f \in Targets(i) :
        /\ st[i][f].doneCalls <= 1
        /\ st[i][f].outcome \in {"created", "failed"} => st[i][f].doneCalls = 1

\* C19 witness: a finished invocation with a failed target and a created
\* target, done called once for each.
C19_Witness ==
    \E i \in Invocations :
        /\ Completed(i)
        /\ \E f \in Targets(i) : st[i][f].outcome = "failed" /\ st[i][f].doneCalls = 1
        /\ \E f \in Targets(i) : st[i][f].outcome = "created" /\ st[i][f].doneCalls = 1

====
